---- MODULE Spec2Model ----
(***************************************************************************)
(* A model of database.py: the remote SQL execution client                 *)
(* (execute_turso_query), the schema set-up (setup_database) and the       *)
(* repository operations built on it, together with the remote store the   *)
(* SQL statements of the module act on.                                     *)
(*                                                                         *)
(* Python values are tagged records [t |-> <type>, v |-> <value>].  Text   *)
(* (a JSON document, a string payload) is a sequence of one-character      *)
(* strings, so that json.dumps and json.loads are a real serialiser and a  *)
(* real parser.  Tables are bags of rows: the rows of one table carry no   *)
(* order (no statement of the module has an ORDER BY), and a bag can hold  *)
(* the same natural key twice, so uniqueness is something the statements   *)
(* have to establish.                                                      *)
(***************************************************************************)
EXTENDS Integers, Sequences, FiniteSets, Bags, TLC

VARIABLES
    db,        \* the remote store: [projects, scenarios, user_fluids], bags of rows
    call,      \* the last completed call: operation, arguments, outcome, round trips
    fullSave,  \* history: key -> the data of the latest save whose two round trips
               \*          succeeded, with no later write to the key; overwrote: that
               \*          save directly followed such a save of other data
    deleted,   \* history: <<key, hadRow>> for the keys deleted by a successful round
               \*          trip and not written since; hadRow: a row was there to delete
    savedUnder, \* history: the (username, project_name) pairs under which a
               \*          save_scenario made both its round trips successfully
    pc,        \* concurrent callers: position of each caller inside save_scenario
    req        \* concurrent callers: the arguments of each caller's save_scenario

vars == <<db, call, fullSave, deleted, savedUnder, pc, req>>

-----------------------------------------------------------------------------
(* Bounds of the model *)

\* longest column-name list of a gateway response
MaxCols == 2
\* most rows of a gateway response
MaxRows == 2
\* number of concurrent callers of save_scenario
NumCallers == 2

-----------------------------------------------------------------------------
(* Python values *)

PyNone == [t |-> "None", v |-> 0]
PyInt(n) == [t |-> "int", v |-> n]
PyStr(s) == [t |-> "str", v |-> s]
PyList(xs) == [t |-> "list", v |-> xs]
PyTuple(xs) == [t |-> "tuple", v |-> xs]
\* a dict is its items in insertion order, each <<key, value>>
PyDict(items) == [t |-> "dict", v |-> items]

Digits == <<"0", "1", "2", "3", "4", "5", "6", "7", "8", "9">>

IsDigit(c) == \E i \in 1..Len(Digits) : Digits[i] = c

DigitVal(c) == (CHOOSE i \in 1..Len(Digits) : Digits[i] = c) - 1

RECURSIVE IntText(_)
\* str(n) for n >= 0
IntText(n) ==
    IF n < Len(Digits)
    THEN <<Digits[n + 1]>>
    ELSE IntText(n \div Len(Digits)) \o <<Digits[(n % Len(Digits)) + 1]>>

Quoted(s) == <<"\"">> \o s \o <<"\"">>

RECURSIVE dumps(_)
RECURSIVE DumpItems(_)
RECURSIVE DumpPairs(_)
\* json.dumps: tuples are written as arrays, and the keys of a dict as strings
dumps(x) ==
    CASE x.t = "None" -> <<"n", "u", "l", "l">>
      [] x.t = "int" -> IntText(x.v)
      [] x.t = "str" -> Quoted(x.v)
      [] x.t \in {"list", "tuple"} -> <<"[">> \o DumpItems(x.v) \o <<"]">>
      [] x.t = "dict" -> <<"{">> \o DumpPairs(x.v) \o <<"}">>

DumpItems(xs) ==
    IF xs = <<>> THEN <<>>
    ELSE IF Len(xs) = 1 THEN dumps(xs[1])
    ELSE dumps(xs[1]) \o <<",", " ">> \o DumpItems(Tail(xs))

DumpKey(k) ==
    CASE k.t = "str" -> Quoted(k.v)
      [] k.t = "int" -> Quoted(IntText(k.v))
      [] k.t = "None" -> Quoted(<<"n", "u", "l", "l">>)

DumpPair(kv) == DumpKey(kv[1]) \o <<":", " ">> \o dumps(kv[2])

DumpPairs(kvs) ==
    IF kvs = <<>> THEN <<>>
    ELSE IF Len(kvs) = 1 THEN DumpPair(kvs[1])
    ELSE DumpPair(kvs[1]) \o <<",", " ">> \o DumpPairs(Tail(kvs))

RECURSIVE SkipWs(_)
SkipWs(s) == IF s # <<>> /\ Head(s) = " " THEN SkipWs(Tail(s)) ELSE s

RECURSIVE ParseDigits(_, _)
\* the number read so far and the text behind it
ParseDigits(s, acc) ==
    IF s # <<>> /\ IsDigit(Head(s))
    THEN ParseDigits(Tail(s), acc * Len(Digits) + DigitVal(Head(s)))
    ELSE [val |-> PyInt(acc), rest |-> s]

RECURSIVE ParseChars(_, _)
\* s is behind the opening quote
ParseChars(s, acc) ==
    IF Head(s) = "\""
    THEN [val |-> PyStr(acc), rest |-> Tail(s)]
    ELSE ParseChars(Tail(s), Append(acc, Head(s)))

RECURSIVE ParseValue(_)
RECURSIVE ParseElems(_, _)
RECURSIVE ParseMembers(_, _)
\* json.loads, one value: arrays become lists, objects dicts with str keys
ParseValue(s0) ==
    LET s == SkipWs(s0) IN
    CASE Head(s) = "n" -> [val |-> PyNone, rest |-> SubSeq(s, 5, Len(s))]
      [] Head(s) = "\"" -> ParseChars(Tail(s), <<>>)
      [] Head(s) = "[" -> ParseElems(SkipWs(Tail(s)), <<>>)
      [] Head(s) = "{" -> ParseMembers(SkipWs(Tail(s)), <<>>)
      [] OTHER -> ParseDigits(s, 0)

ParseElems(s, acc) ==
    IF Head(s) = "]"
    THEN [val |-> PyList(acc), rest |-> Tail(s)]
    ELSE IF Head(s) = ","
    THEN ParseElems(SkipWs(Tail(s)), acc)
    ELSE LET e == ParseValue(s)
         IN ParseElems(SkipWs(e.rest), Append(acc, e.val))

ParseMembers(s, acc) ==
    IF Head(s) = "}"
    THEN [val |-> PyDict(acc), rest |-> Tail(s)]
    ELSE IF Head(s) = ","
    THEN ParseMembers(SkipWs(Tail(s)), acc)
    ELSE LET k == ParseChars(Tail(s), <<>>)
             e == ParseValue(Tail(SkipWs(k.rest)))
         IN ParseMembers(SkipWs(e.rest), Append(acc, <<k.val, e.val>>))

loads(text) == ParseValue(text).val

-----------------------------------------------------------------------------
(* Text of messages: a sequence of words *)

\* needle in hay
Contains(hay, needle) ==
    \E i \in 0..(Len(hay) - Len(needle)) :
        SubSeq(hay, i + 1, i + Len(needle)) = needle

UniqueConstraintFailed == <<"UNIQUE", "constraint", "failed">>

-----------------------------------------------------------------------------
(* execute_turso_query *)

FetchModes == {"none", "one", "all"}

\* what a call yields: a returned value or a raised exception, and what it
\* told st.error
Return(v) == [kind |-> "return", val |-> v, exc |-> [type |-> "", msg |-> <<>>],
              st_error |-> ""]
Raise(type, msg) == [kind |-> "raise", val |-> [k |-> "None", x |-> 0],
                     exc |-> [type |-> type, msg |-> msg], st_error |-> ""]

\* the values execute_turso_query returns
None == [k |-> "None", x |-> 0]
Dict(d) == [k |-> "dict", x |-> d]
List(l) == [k |-> "list", x |-> l]

\* what the HTTP POST yields
NoBody == [results |-> <<>>]
Failed(kind) == [kind |-> kind, body |-> NoBody]
Json(body) == [kind |-> "json", body |-> body]
\* one entry of the body's results: a missing key has present = FALSE
ResultData(error, hasCols, columns, rows) ==
    [error |-> error, columns |-> [present |-> hasCols, names |-> columns],
     rows |-> rows]

\* results_data.get('columns', [])
GetColumns(results_data) ==
    IF results_data.columns.present THEN results_data.columns.names ELSE <<>>

\* {col: row[i] for i, col in enumerate(columns)}, for a row long enough
RowDict(columns, row) ==
    [col \in {columns[i] : i \in DOMAIN columns} |->
        row[CHOOSE i \in DOMAIN columns :
                /\ columns[i] = col
                /\ \A j \in DOMAIN columns : columns[j] = col => j <= i]]

\* the statements inside try:
ExecuteBody(t, fetch_mode) ==
    CASE t.kind = "RequestError" -> Raise("httpx.RequestError", <<"network">>)
      [] t.kind = "HTTPStatusError" -> Raise("httpx.HTTPStatusError", <<"status">>)
      [] t.kind = "JSONDecodeError" -> Raise("json.JSONDecodeError", <<"json">>)
      [] OTHER ->
        IF t.body.results = <<>>
        THEN Return(IF fetch_mode = "all" THEN List(<<>>) ELSE None)
        ELSE LET results_data == t.body.results[1]
                 columns == GetColumns(results_data)
                 rows == results_data.rows
             IN IF results_data.error # <<>>
                THEN Raise("Exception", <<"Erro", "no", "Turso", ":">> \o results_data.error)
                ELSE IF fetch_mode = "none" THEN Return(None)
                ELSE IF fetch_mode = "one"
                THEN IF rows # <<>>
                     THEN IF Len(columns) > Len(rows[1])
                          THEN Raise("IndexError", <<"list", "index", "out", "of", "range">>)
                          ELSE Return(Dict(RowDict(columns, rows[1])))
                     ELSE Return(None)
                ELSE IF \E r \in DOMAIN rows : Len(columns) > Len(rows[r])
                     THEN Raise("IndexError", <<"list", "index", "out", "of", "range">>)
                     ELSE Return(List([r \in DOMAIN rows |-> RowDict(columns, rows[r])]))

\* the except clauses: each reports to st.error and returns None
ExceptClauses(o) ==
    IF o.kind = "raise"
    THEN [Return(None) EXCEPT !.st_error =
            CASE o.exc.type = "httpx.HTTPStatusError" -> "Erro de HTTP ao conectar ao Turso"
              [] o.exc.type = "httpx.RequestError" -> "Erro de rede ao conectar ao Turso"
              [] o.exc.type = "json.JSONDecodeError" -> "Erro ao decodificar a resposta JSON do Turso"
              [] OTHER -> "Erro inesperado ao executar query no Turso"]
    ELSE o

execute_turso_query(t, fetch_mode) == ExceptClauses(ExecuteBody(t, fetch_mode))

\* client.post is called once in execute_turso_query, outside any loop
PostsPerCall == 1

-----------------------------------------------------------------------------
(* The remote store: the tables of setup_database and the statements the   *)
(* repository operations send                                              *)

\* the tables of setup_database's queries, in the order of the list
Tables == <<"users", "projects", "scenarios", "user_fluids", "user_materials">>

NoTables == [tables |-> {}, projects |-> EmptyBag, scenarios |-> EmptyBag,
             user_fluids |-> EmptyBag]

\* the store once setup_database has run: every table exists, without rows
EmptyDb == [NoTables EXCEPT !.tables = {Tables[i] : i \in DOMAIN Tables}]

\* the projects table declared without its UNIQUE constraint
ProjectsNoUnique(r1, r2) == FALSE

\* UNIQUE (username, project_name)
ProjectsUnique(r1, r2) ==
    r1.username = r2.username /\ r1.project_name = r2.project_name

\* UNIQUE (username, project_name, scenario_name)
ScenariosUnique(r1, r2) ==
    /\ r1.username = r2.username
    /\ r1.project_name = r2.project_name
    /\ r1.scenario_name = r2.scenario_name

\* UNIQUE (username, fluid_name)
FluidsUnique(r1, r2) ==
    r1.username = r2.username /\ r1.fluid_name = r2.fluid_name

\* the table restricted to the rows in keep
Where(table, keep) == [r \in DOMAIN table \cap keep |-> table[r]]

Insert(table, row) == table (+) SetToBag({row})

RECURSIVE SetToSeq(_)
SetToSeq(S) ==
    IF S = {} THEN <<>>
    ELSE LET x == CHOOSE y \in S : TRUE IN <<x>> \o SetToSeq(S \ {x})

RECURSIVE Flatten(_)
Flatten(ss) == IF ss = <<>> THEN <<>> ELSE Head(ss) \o Flatten(Tail(ss))

\* the rows of a table as a result set, each row r as cells[r]
ResultRows(table, cells) ==
    LET rs == SetToSeq(DOMAIN table)
    IN Flatten([i \in DOMAIN rs |-> [j \in 1..table[rs[i]] |-> cells[rs[i]]]])

\* the gateway's answer to a statement without a result set
Done == ResultData(<<>>, TRUE, <<>>, <<>>)

SqlError(msg) == ResultData(msg, FALSE, <<>>, <<>>)

\* a statement on a table that was never created fails
OnTable(d, table, g) ==
    IF table \in d.tables THEN g
    ELSE [db |-> d, result |-> SqlError(<<"no", "such", "table", ":", table>>)]

\* CREATE TABLE IF NOT EXISTS <table> (...)
CreateTableIfNotExists(d, table) ==
    [db |-> [d EXCEPT !.tables = @ \cup {table}], result |-> Done]

\* INSERT OR IGNORE INTO projects (username, project_name) VALUES (?, ?)
InsertOrIgnoreProject(d, username, project_name) ==
    LET row == [username |-> username, project_name |-> project_name]
    IN OnTable(d, "projects",
        IF \E r \in DOMAIN d.projects : ProjectsUnique(r, row)
        THEN [db |-> d, result |-> Done]
        ELSE [db |-> [d EXCEPT !.projects = Insert(@, row)], result |-> Done])

\* INSERT OR IGNORE in place of INSERT OR REPLACE: the row of an earlier save stays
InsertOrIgnoreScenario(d, username, project_name, scenario_name, data_json) ==
    LET row == [username |-> username, project_name |-> project_name,
                scenario_name |-> scenario_name, scenario_data |-> data_json]
    IN OnTable(d, "scenarios",
        IF \E r \in DOMAIN d.scenarios : ScenariosUnique(r, row)
        THEN [db |-> d, result |-> Done]
        ELSE [db |-> [d EXCEPT !.scenarios = Insert(@, row)], result |-> Done])

\* INSERT OR REPLACE INTO scenarios (username, project_name, scenario_name,
\* scenario_data) VALUES (?, ?, ?, ?)
InsertOrReplaceScenario(d, username, project_name, scenario_name, data_json) ==
    LET row == [username |-> username, project_name |-> project_name,
                scenario_name |-> scenario_name, scenario_data |-> data_json]
        Other(r) == ~ScenariosUnique(r, row)
    IN OnTable(d, "scenarios",
        [db |-> [d EXCEPT !.scenarios = Insert(Where(@, {r \in DOMAIN @ : Other(r)}), row)],
         result |-> Done])

\* SELECT scenario_data FROM scenarios WHERE username = ? AND project_name = ?
\* AND scenario_name = ?
SelectScenarioData(d, username, project_name, scenario_name) ==
    LET Match(r) == /\ r.username = username
                    /\ r.project_name = project_name
                    /\ r.scenario_name = scenario_name
        Cells(r) == <<r.scenario_data>>
    IN OnTable(d, "scenarios",
        [db |-> d,
         result |-> ResultData(<<>>, TRUE, <<"scenario_data">>,
                               ResultRows(Where(d.scenarios, {r \in DOMAIN d.scenarios : Match(r)}),
                                          [r \in DOMAIN d.scenarios |-> Cells(r)]))])

\* the project names read from the scenarios table
SelectProjectNamesOfScenarios(d, username) ==
    LET Match(r) == r.username = username
        Cells(r) == <<r.project_name>>
    IN OnTable(d, "scenarios",
        [db |-> d,
         result |-> ResultData(<<>>, TRUE, <<"project_name">>,
                               ResultRows(Where(d.scenarios, {r \in DOMAIN d.scenarios : Match(r)}),
                                          [r \in DOMAIN d.scenarios |-> Cells(r)]))])

\* SELECT project_name FROM projects WHERE username = ?
SelectProjectNames(d, username) ==
    LET Match(r) == r.username = username
        Cells(r) == <<r.project_name>>
    IN OnTable(d, "projects",
        [db |-> d,
         result |-> ResultData(<<>>, TRUE, <<"project_name">>,
                               ResultRows(Where(d.projects, {r \in DOMAIN d.projects : Match(r)}),
                                          [r \in DOMAIN d.projects |-> Cells(r)]))])

\* the DELETE without project_name in its WHERE
DeleteScenarioRowsAnyProject(d, username, project_name, scenario_name) ==
    LET Other(r) == ~(r.username = username /\ r.scenario_name = scenario_name)
    IN OnTable(d, "scenarios",
        [db |-> [d EXCEPT !.scenarios = Where(@, {r \in DOMAIN @ : Other(r)})], result |-> Done])

\* DELETE FROM scenarios WHERE username = ? AND project_name = ? AND
\* scenario_name = ?
DeleteScenarioRows(d, username, project_name, scenario_name) ==
    LET Other(r) == ~(/\ r.username = username
                      /\ r.project_name = project_name
                      /\ r.scenario_name = scenario_name)
    IN OnTable(d, "scenarios",
        [db |-> [d EXCEPT !.scenarios = Where(@, {r \in DOMAIN @ : Other(r)})], result |-> Done])

\* INSERT INTO user_fluids (username, fluid_name, density, viscosity,
\* vapor_pressure) VALUES (?, ?, ?, ?, ?)
InsertUserFluid(d, username, fluid_name, density, viscosity, vapor_pressure) ==
    LET row == [username |-> username, fluid_name |-> fluid_name,
                density |-> density, viscosity |-> viscosity,
                vapor_pressure |-> vapor_pressure]
    IN OnTable(d, "user_fluids",
        IF \E r \in DOMAIN d.user_fluids : FluidsUnique(r, row)
        THEN [db |-> d,
              result |-> SqlError(UniqueConstraintFailed \o
                                  <<":", "user_fluids.username", ",",
                                    "user_fluids.fluid_name">>)]
        ELSE [db |-> [d EXCEPT !.user_fluids = Insert(@, row)], result |-> Done])

\* SELECT fluid_name, density, viscosity, vapor_pressure FROM user_fluids
\* WHERE username = ?
SelectUserFluids(d, username) ==
    LET Match(r) == r.username = username
        Cells(r) == <<r.fluid_name, r.density, r.viscosity, r.vapor_pressure>>
    IN OnTable(d, "user_fluids",
        [db |-> d,
         result |-> ResultData(<<>>, TRUE,
                               <<"fluid_name", "density", "viscosity", "vapor_pressure">>,
                               ResultRows(Where(d.user_fluids, {r \in DOMAIN d.user_fluids : Match(r)}),
                                          [r \in DOMAIN d.user_fluids |-> Cells(r)]))])

\* DELETE FROM user_fluids WHERE username = ? AND fluid_name = ?
DeleteUserFluidRows(d, username, fluid_name) ==
    LET Other(r) == ~(r.username = username /\ r.fluid_name = fluid_name)
    IN OnTable(d, "user_fluids",
        [db |-> [d EXCEPT !.user_fluids = Where(@, {r \in DOMAIN @ : Other(r)})], result |-> Done])

-----------------------------------------------------------------------------
(* One round trip of execute_turso_query *)

\* how a round trip can go: the statement runs and is answered, the request
\* fails in the network, the gateway answers with a non-2xx status, the body
\* is no JSON, or the gateway reports an error of its own for the statement.
\* A failed round trip leaves the store as it was.
Faults == {"ok", "RequestError", "HTTPStatusError", "JSONDecodeError", "GatewayError"}

\* g is the statement's effect, [db, result]; d the store before it
RoundTrip(d, g, fault) ==
    CASE fault = "ok" -> [db |-> g.db, t |-> Json([results |-> <<g.result>>])]
      [] fault = "GatewayError" ->
            [db |-> d, t |-> Json([results |-> <<SqlError(<<"internal", "error">>)>>])]
      [] OTHER -> [db |-> d, t |-> Failed(fault)]

\* the faults drawn for the round trips of the repository operations: an HTTP
\* status error and a body that is no JSON end in the same except clauses as
\* a network failure
CallFaults == {"ok", "RequestError", "GatewayError"}

\* execute_turso_query(query, params, fetch_mode) against the store:
\* ok says whether the statement ran and was answered without an error
Query(d, g, fetch_mode, fault) ==
    LET rt == RoundTrip(d, g, fault)
    IN [db |-> rt.db,
        out |-> execute_turso_query(rt.t, fetch_mode),
        ok |-> fault = "ok" /\ g.result.error = <<>>,
        fault |-> fault]

Trip(stmt, q) == [stmt |-> stmt, ok |-> q.ok]

-----------------------------------------------------------------------------
(* Repository operations.  Each yields the store after it, its outcome and *)
(* the round trips it made, in order.                                      *)

save_scenario(d, username, project_name, scenario_name, scenario_data, f1, f2) ==
    LET q1 == Query(d, InsertOrIgnoreProject(d, username, project_name), "none", f1)
    IN IF q1.out.kind = "raise"
       THEN [db |-> q1.db, out |-> q1.out, trips |-> <<Trip("projects", q1)>>]
       ELSE LET data_json == dumps(scenario_data)
                q2 == Query(q1.db,
                            InsertOrReplaceScenario(q1.db, username, project_name,
                                                    scenario_name, data_json),
                            "none", f2)
            IN [db |-> q2.db,
                out |-> IF q2.out.kind = "raise" THEN q2.out ELSE Return(PyNone),
                trips |-> <<Trip("projects", q1), Trip("scenarios", q2)>>]

load_scenario(d, username, project_name, scenario_name, f) ==
    LET q == Query(d, SelectScenarioData(d, username, project_name, scenario_name),
                   "one", f)
        result == q.out.val
    IN [db |-> q.db,
        out |-> IF q.out.kind = "raise" THEN q.out
                ELSE IF /\ result.k = "dict"
                        /\ result.x # <<>>
                        /\ "scenario_data" \in DOMAIN result.x
                     THEN Return(loads(result.x["scenario_data"]))
                     ELSE Return(PyNone),
        trips |-> <<Trip("scenarios", q)>>]

get_user_projects(d, username, f) ==
    LET q == Query(d, SelectProjectNames(d, username), "all", f)
        results == q.out.val
    IN [db |-> q.db,
        out |-> IF q.out.kind = "raise" THEN q.out
                ELSE IF results.k = "list" /\ results.x # <<>>
                     THEN Return([i \in DOMAIN results.x |-> results.x[i]["project_name"]])
                     ELSE Return(<<>>),
        trips |-> <<Trip("projects", q)>>]

delete_scenario(d, username, project_name, scenario_name, f) ==
    LET q == Query(d, DeleteScenarioRows(d, username, project_name, scenario_name),
                   "none", f)
    IN [db |-> q.db,
        out |-> IF q.out.kind = "raise" THEN q.out ELSE Return(PyNone),
        trips |-> <<Trip("scenarios", q)>>]

add_user_fluid(d, username, fluid_name, density, viscosity, vapor_pressure, f) ==
    LET q == Query(d, InsertUserFluid(d, username, fluid_name, density, viscosity,
                                      vapor_pressure), "none", f)
    IN [db |-> q.db,
        out |-> IF q.out.kind = "raise"
                THEN IF Contains(q.out.exc.msg, UniqueConstraintFailed)
                     THEN Return(FALSE)
                     ELSE q.out
                ELSE Return(TRUE),
        trips |-> <<Trip("user_fluids", q)>>]

get_user_fluids(d, username, f) ==
    LET q == Query(d, SelectUserFluids(d, username), "all", f)
        results == q.out.val
    IN [db |-> q.db,
        out |-> IF q.out.kind = "raise" THEN q.out
                ELSE IF results.k = "list" /\ results.x # <<>>
                     THEN Return([name \in {results.x[i]["fluid_name"] : i \in DOMAIN results.x} |->
                            LET row == results.x[CHOOSE i \in DOMAIN results.x :
                                    /\ results.x[i]["fluid_name"] = name
                                    /\ \A j \in DOMAIN results.x :
                                          results.x[j]["fluid_name"] = name => j <= i]
                            IN [rho |-> row["density"], nu |-> row["viscosity"],
                                pv_kpa |-> row["vapor_pressure"]]])
                     ELSE Return(<<>>),
        trips |-> <<Trip("user_fluids", q)>>]

delete_user_fluid(d, username, fluid_name, f) ==
    LET q == Query(d, DeleteUserFluidRows(d, username, fluid_name), "none", f)
    IN [db |-> q.db,
        out |-> IF q.out.kind = "raise" THEN q.out ELSE Return(PyNone),
        trips |-> <<Trip("user_fluids", q)>>]

RECURSIVE RunQueries(_, _, _, _)
\* for query in queries: execute_turso_query(query), from the i-th query on
RunQueries(d, i, fs, trips) ==
    IF i > Len(Tables)
    THEN [db |-> d, out |-> Return(PyNone), trips |-> trips]
    ELSE LET q == Query(d, CreateTableIfNotExists(d, Tables[i]), "none", fs[i])
         IN IF q.out.kind = "raise"
            THEN [db |-> q.db, out |-> q.out, trips |-> Append(trips, Trip(Tables[i], q))]
            ELSE RunQueries(q.db, i + 1, fs, Append(trips, Trip(Tables[i], q)))

setup_database(d, fs) == RunQueries(d, 1, fs, <<>>)

-----------------------------------------------------------------------------
(* The arguments the operations are called with *)

Usernames == {"u1"}
ProjectNames == {"A", "B"}
ScenarioNames == {"s1"}
Keys == Usernames \X ProjectNames \X ScenarioNames

\* a list, a nested mapping, a tuple and a mapping with a number as key
Payloads ==
    { PyList(<<PyInt(1), PyStr(<<"a">>)>>),
      PyDict(<< <<PyStr(<<"k">>), PyList(<<PyInt(20)>>)>>,
                <<PyStr(<<"m">>), PyDict(<< <<PyStr(<<"x">>), PyNone>> >>)>> >>),
      PyTuple(<<PyInt(1), PyStr(<<"a">>)>>),
      PyDict(<< <<PyInt(1), PyStr(<<"a">>)>> >>) }

FluidNames == {"water", "oil"}
Densities == {998, 870}
Viscosities == {1}
VaporPressures == {2}

NoSave == [saved |-> FALSE, data |-> PyNone, overwrote |-> FALSE]

NoCall == [op |-> "none"]

HasScenario(d, u, p, s) ==
    \E r \in DOMAIN d.scenarios :
        r.username = u /\ r.project_name = p /\ r.scenario_name = s

TripOk(trips, stmt) == \E i \in DOMAIN trips : trips[i].stmt = stmt /\ trips[i].ok

-----------------------------------------------------------------------------
(* Sequential callers of the scenario operations: one call at a time *)

Init ==
    /\ db = EmptyDb
    /\ call = NoCall
    /\ fullSave = [k \in Keys |-> NoSave]
    /\ deleted = {}
    /\ savedUnder = {}
    /\ pc = <<>>
    /\ req = <<>>

SaveScenario ==
    \E u \in Usernames, p \in ProjectNames, s \in ScenarioNames, data \in Payloads,
       f1 \in CallFaults, f2 \in CallFaults :
      \E r \in {save_scenario(db, u, p, s, data, f1, f2)} :
        LET wrote == TripOk(r.trips, "scenarios")
            both == wrote /\ TripOk(r.trips, "projects")
            k == <<u, p, s>>
        IN /\ db' = r.db
           /\ call' = [op |-> "save_scenario", username |-> u, project_name |-> p,
                       scenario_name |-> s, data |-> data, out |-> r.out,
                       trips |-> r.trips]
           /\ savedUnder' = IF both THEN savedUnder \cup {<<u, p>>} ELSE savedUnder
           /\ fullSave' =
                IF both
                THEN [fullSave EXCEPT ![k] =
                        [saved |-> TRUE, data |-> data,
                         overwrote |-> fullSave[k].saved /\ fullSave[k].data # data]]
                ELSE IF wrote THEN [fullSave EXCEPT ![k] = NoSave]
                ELSE fullSave
           /\ deleted' = IF wrote THEN deleted \ ({k} \X BOOLEAN) ELSE deleted
           /\ UNCHANGED <<pc, req>>

LoadScenario ==
    \E u \in Usernames, p \in ProjectNames, s \in ScenarioNames, f \in CallFaults :
      \E r \in {load_scenario(db, u, p, s, f)} :
           /\ db' = r.db
           /\ call' = [op |-> "load_scenario", username |-> u, project_name |-> p,
                       scenario_name |-> s, out |-> r.out, trips |-> r.trips]
           /\ UNCHANGED <<fullSave, deleted, savedUnder, pc, req>>

GetUserProjects ==
    \E u \in Usernames, f \in CallFaults :
      \E r \in {get_user_projects(db, u, f)} :
           /\ db' = r.db
           /\ call' = [op |-> "get_user_projects", username |-> u, out |-> r.out,
                       trips |-> r.trips]
           /\ UNCHANGED <<fullSave, deleted, savedUnder, pc, req>>

DeleteScenario ==
    \E u \in Usernames, p \in ProjectNames, s \in ScenarioNames, f \in CallFaults :
      \E r \in {delete_scenario(db, u, p, s, f)} :
        LET k == <<u, p, s>>
            ok == TripOk(r.trips, "scenarios")
        IN /\ db' = r.db
           /\ call' = [op |-> "delete_scenario", username |-> u, project_name |-> p,
                       scenario_name |-> s, out |-> r.out, trips |-> r.trips]
           /\ deleted' = IF ok
                         THEN (deleted \ ({k} \X BOOLEAN))
                                \cup {<<k, HasScenario(db, u, p, s)>>}
                         ELSE deleted
           /\ fullSave' = IF ok THEN [fullSave EXCEPT ![k] = NoSave] ELSE fullSave
           /\ UNCHANGED <<savedUnder, pc, req>>

Next == SaveScenario \/ LoadScenario \/ GetUserProjects \/ DeleteScenario

Spec == Init /\ [][Next]_vars

-----------------------------------------------------------------------------
(* Sequential callers of the fluid catalogue *)

Idle ==
    /\ call = NoCall
    /\ fullSave = [k \in Keys |-> NoSave]
    /\ deleted = {}
    /\ savedUnder = {}
    /\ pc = <<>>
    /\ req = <<>>

InitFluid == db = EmptyDb /\ Idle

\* before: the catalogue as it was when the call was made
AddUserFluid ==
    \E u \in Usernames, n \in FluidNames, rho \in Densities, nu \in Viscosities,
       pv \in VaporPressures, f \in Faults :
      \E r \in {add_user_fluid(db, u, n, rho, nu, pv, f)} :
           /\ db' = r.db
           /\ call' = [op |-> "add_user_fluid", username |-> u, fluid_name |-> n,
                       density |-> rho, viscosity |-> nu, vapor_pressure |-> pv,
                       fault |-> f, before |-> db.user_fluids, out |-> r.out,
                       trips |-> r.trips]
           /\ UNCHANGED <<fullSave, deleted, savedUnder, pc, req>>

GetUserFluids ==
    \E u \in Usernames, f \in Faults :
      \E r \in {get_user_fluids(db, u, f)} :
           /\ db' = r.db
           /\ call' = [op |-> "get_user_fluids", username |-> u, fault |-> f,
                       out |-> r.out, trips |-> r.trips]
           /\ UNCHANGED <<fullSave, deleted, savedUnder, pc, req>>

DeleteUserFluid ==
    \E u \in Usernames, n \in FluidNames, f \in Faults :
      \E r \in {delete_user_fluid(db, u, n, f)} :
           /\ db' = r.db
           /\ call' = [op |-> "delete_user_fluid", username |-> u, fluid_name |-> n,
                       fault |-> f, out |-> r.out, trips |-> r.trips]
           /\ UNCHANGED <<fullSave, deleted, savedUnder, pc, req>>

NextFluid == AddUserFluid \/ GetUserFluids \/ DeleteUserFluid

SpecFluid == InitFluid /\ [][NextFluid]_vars

-----------------------------------------------------------------------------
(* setup_database on a store that may lack any of the tables *)

InitSetup == db = NoTables /\ Idle

SetupDatabase ==
    \E fs \in [DOMAIN Tables -> CallFaults] :
      \E r \in {setup_database(db, fs)} :
           /\ db' = r.db
           /\ call' = [op |-> "setup_database", out |-> r.out, trips |-> r.trips]
           /\ UNCHANGED <<fullSave, deleted, savedUnder, pc, req>>

NextSetup == SetupDatabase

SpecSetup == InitSetup /\ [][NextSetup]_vars

-----------------------------------------------------------------------------
(* execute_turso_query on every answer the transport can give *)

ColumnNames == {"a", "b"}

\* the sequences over S of length at most n
SeqsUpTo(S, n) == UNION {[1..m -> S] : m \in 0..n}

\* the i-th row of a result set, w cells wide
Row(i, w) == [j \in 1..w |-> 10 * i + j]

RowLists ==
    {[i \in DOMAIN ws |-> Row(i, ws[i])] : ws \in SeqsUpTo(0..MaxCols, MaxRows)}

Errors == {<<>>, <<"no", "such", "table">>,
           UniqueConstraintFailed \o <<":", "users.username">>}

ResultDatas ==
    {ResultData(e, TRUE, cols, rows) :
        e \in Errors, cols \in SeqsUpTo(ColumnNames, MaxCols), rows \in RowLists}
    \cup {ResultData(e, FALSE, <<>>, rows) : e \in Errors, rows \in RowLists}

Transports ==
    {Failed(k) : k \in {"RequestError", "HTTPStatusError", "JSONDecodeError"}}
    \cup {Json(NoBody)}
    \cup {Json([results |-> <<r>>]) : r \in ResultDatas}

\* the call is made with some answer of the transport waiting for it
InitExecute ==
    /\ db = EmptyDb
    /\ \E t \in Transports, fetch_mode \in FetchModes :
        call = [op |-> "calling", t |-> t, fetch_mode |-> fetch_mode]
    /\ fullSave = [k \in Keys |-> NoSave]
    /\ deleted = {}
    /\ savedUnder = {}
    /\ pc = <<>>
    /\ req = <<>>

Execute ==
    /\ call.op = "calling"
    /\ call' = [op |-> "execute_turso_query", t |-> call.t,
                fetch_mode |-> call.fetch_mode,
                out |-> execute_turso_query(call.t, call.fetch_mode),
                posts |-> PostsPerCall]
    /\ UNCHANGED <<db, fullSave, deleted, savedUnder, pc, req>>

NextExecute == Execute

SpecExecute == InitExecute /\ [][NextExecute]_vars

-----------------------------------------------------------------------------
(* Concurrent callers of save_scenario on one key: a step is one round trip *)

Callers == 1..NumCallers

\* every caller saves the same key, each with data of its own
InitConc ==
    /\ db = EmptyDb
    /\ call = NoCall
    /\ fullSave = [k \in Keys |-> NoSave]
    /\ deleted = {}
    /\ savedUnder = {}
    /\ pc = [c \in Callers |-> [at |-> "projects", ok |-> TRUE]]
    /\ \E k \in Keys :
        \E data \in {f \in [Callers -> Payloads] :
                        \A c1, c2 \in Callers : c1 # c2 => f[c1] # f[c2]} :
            req = [username |-> k[1], project_name |-> k[2], scenario_name |-> k[3],
                   data |-> data]

\* caller c's first execute_turso_query
ConcProject(c) ==
    /\ pc[c].at = "projects"
    /\ \E f \in CallFaults :
        \E q \in {Query(db, InsertOrIgnoreProject(db, req.username, req.project_name),
                        "none", f)} :
            /\ db' = q.db
            /\ pc' = [pc EXCEPT ![c] =
                        [at |-> IF q.out.kind = "raise" THEN "done" ELSE "scenarios",
                         ok |-> q.ok]]
    /\ UNCHANGED <<call, fullSave, deleted, savedUnder, req>>

\* caller c's second execute_turso_query
ConcScenario(c) ==
    /\ pc[c].at = "scenarios"
    /\ \E f \in CallFaults :
        \E q \in {Query(db, InsertOrReplaceScenario(db, req.username, req.project_name,
                                                    req.scenario_name,
                                                    dumps(req.data[c])),
                        "none", f)} :
            /\ db' = q.db
            /\ pc' = [pc EXCEPT ![c] = [at |-> "done", ok |-> pc[c].ok /\ q.ok]]
    /\ UNCHANGED <<call, fullSave, deleted, savedUnder, req>>

NextConc == \E c \in Callers : ConcProject(c) \/ ConcScenario(c)

SpecConc == InitConc /\ [][NextConc]_vars

-----------------------------------------------------------------------------
(* Properties *)

\* how often x occurs in seq
Count(seq, x) == Cardinality({i \in DOMAIN seq : seq[i] = x})

\* the number of rows of a table that are in keep
Rows(table, keep) == BagCardinality(Where(table, keep))

RECURSIVE IsJsonNative(_)
\* built from None, numbers, strings, lists and dicts with str keys alone
IsJsonNative(x) ==
    CASE x.t \in {"None", "int", "str"} -> TRUE
      [] x.t = "list" -> \A i \in DOMAIN x.v : IsJsonNative(x.v[i])
      [] x.t = "dict" ->
            \A i \in DOMAIN x.v : x.v[i][1].t = "str" /\ IsJsonNative(x.v[i][2])
      [] OTHER -> FALSE

CallKey == <<call.username, call.project_name, call.scenario_name>>

\* C1: add_user_fluid answered by the store for a (username, fluid_name) that
\* is already in the catalogue returns False and leaves the stored density,
\* viscosity and vapor pressure as they were; for a new one it returns True.
C1_SecondAddReturnsFalse ==
    (call.op = "add_user_fluid" /\ call.fault = "ok") =>
        IF \E r \in DOMAIN call.before :
                r.username = call.username /\ r.fluid_name = call.fluid_name
        THEN call.out = Return(FALSE) /\ db.user_fluids = call.before
        ELSE call.out = Return(TRUE)

\* C2: when the answer's single result carries an error indicator,
\* execute_turso_query raises an error that carries the gateway's message, in
\* every fetch mode; it does not return.
C2_ErrorIndicatorRaises ==
    (/\ call.op = "execute_turso_query"
     /\ call.t.kind = "json"
     /\ call.t.body.results # <<>>
     /\ call.t.body.results[1].error # <<>>) =>
        /\ call.out.kind = "raise"
        /\ Contains(call.out.exc.msg, call.t.body.results[1].error)

\* C3: when the POST fails in the network, execute_turso_query raises the
\* transport's error to its caller, after exactly one POST.
C3_NetworkFailureRaisesOnce ==
    (call.op = "execute_turso_query" /\ call.t.kind = "RequestError") =>
        /\ call.out.kind = "raise"
        /\ call.out.exc.type = "httpx.RequestError"
        /\ call.posts = 1

\* C4: setup_database issues its create-table statements in the order of the
\* list, and the first one that fails ends it with an error: no statement is
\* issued after it.
C4_SetupAbortsOnFailure ==
    call.op = "setup_database" =>
        /\ \A i \in DOMAIN call.trips : call.trips[i].stmt = Tables[i]
        /\ \A i \in DOMAIN call.trips :
              ~call.trips[i].ok => (i = Len(call.trips) /\ call.out.kind = "raise")

\* C5 (as claimed): a load_scenario whose round trip succeeded, of a key whose
\* latest write is a save_scenario with both round trips successful, returns
\* a value equal to the data of that save, whatever the data.
C5_LoadReturnsSavedData ==
    (/\ call.op = "load_scenario"
     /\ TripOk(call.trips, "scenarios")
     /\ fullSave[CallKey].saved) =>
        call.out = Return(fullSave[CallKey].data)

\* C5 (amended): the same, for data built from None, numbers, strings, lists
\* and dicts with str keys alone; this covers the later of two successive
\* saves of the key.
C5_LoadReturnsSavedJsonData ==
    (/\ call.op = "load_scenario"
     /\ TripOk(call.trips, "scenarios")
     /\ fullSave[CallKey].saved
     /\ IsJsonNative(fullSave[CallKey].data)) =>
        call.out = Return(fullSave[CallKey].data)

\* a load returned the data of the later of two successive saves with
\* different data
C5_Witness ==
    /\ call.op = "load_scenario"
    /\ TripOk(call.trips, "scenarios")
    /\ fullSave[CallKey].saved
    /\ fullSave[CallKey].overwrote
    /\ IsJsonNative(fullSave[CallKey].data)
    /\ fullSave[CallKey].data.t = "dict"
    /\ call.out = Return(fullSave[CallKey].data)

\* C7: when every concurrent save_scenario of the one key has made both its
\* round trips successfully, in whatever order the round trips were
\* interleaved, the store holds exactly one project row for
\* (username, project_name) and exactly one scenario row for the key, and that
\* row's payload is the serialised data of one of the callers.
C7_ConcurrentSavesKeepOneRow ==
    (\A c \in Callers : pc[c].at = "done" /\ pc[c].ok) =>
        LET SameProject(r) == /\ r.username = req.username
                              /\ r.project_name = req.project_name
            SameKey(r) == SameProject(r) /\ r.scenario_name = req.scenario_name
        IN /\ Rows(db.projects, {r \in DOMAIN db.projects : SameProject(r)}) = 1
           /\ Rows(db.scenarios, {r \in DOMAIN db.scenarios : SameKey(r)}) = 1
           /\ \A r \in DOMAIN db.scenarios :
                SameKey(r) => \E c \in Callers : r.scenario_data = dumps(req.data[c])

\* every caller is through both round trips, and the row left is the first
\* caller's
C7_Witness ==
    /\ \A c \in Callers : pc[c].at = "done" /\ pc[c].ok
    /\ \E r \in DOMAIN db.scenarios : r.scenario_data = dumps(req.data[1])
    /\ \A r \in DOMAIN db.scenarios : r.scenario_data # dumps(req.data[NumCallers])

\* C8: a get_user_projects(u) whose round trip succeeded returns every project
\* under which a scenario of u has been saved exactly once, however often and
\* in whatever order the saves were made and whatever was deleted since.
C8_ProjectsListedOnce ==
    (call.op = "get_user_projects" /\ TripOk(call.trips, "projects")) =>
        /\ call.out.kind = "return"
        /\ \A p \in ProjectNames :
              <<call.username, p>> \in savedUnder => Count(call.out.val, p) = 1

\* scenarios were saved under "A" and "B", both were deleted again, and
\* get_user_projects lists both projects
C8_Witness ==
    /\ call.op = "get_user_projects"
    /\ TripOk(call.trips, "projects")
    /\ {<<call.username, "A">>, <<call.username, "B">>} \subseteq savedUnder
    /\ \E sa, sb \in ScenarioNames :
          {<<<<call.username, "A", sa>>, TRUE>>, <<<<call.username, "B", sb>>, TRUE>>}
              \subseteq deleted
    /\ Count(call.out.val, "A") = 1
    /\ Count(call.out.val, "B") = 1

\* C9: delete_scenario of a key that has no row returns without an error and
\* leaves the store as it was; and a load_scenario of a key that a successful
\* delete_scenario removed, and that was not written since, returns None.
C9_DeleteThenNotFound ==
    /\ []((call.op = "load_scenario" /\ \E had \in BOOLEAN : <<CallKey, had>> \in deleted)
            => call.out = Return(PyNone))
    /\ [][(/\ call'.op = "delete_scenario"
           /\ ~HasScenario(db, call'.username, call'.project_name, call'.scenario_name))
            => (call'.out = Return(PyNone) /\ db' = db)]_vars

\* a key without a row was deleted by a successful round trip, and the load
\* that followed, its round trip successful too, returned None
C9_Witness ==
    /\ call.op = "load_scenario"
    /\ TripOk(call.trips, "scenarios")
    /\ <<CallKey, FALSE>> \in deleted
    /\ call.out = Return(PyNone)
    /\ db.scenarios # EmptyBag

\* C10: every scenario row has a project row of the same
\* (username, project_name), and save_scenario does not send the scenario
\* write when the project write failed.
C10_ScenarioHasProject ==
    /\ \A r \in DOMAIN db.scenarios :
          \E q \in DOMAIN db.projects :
              q.username = r.username /\ q.project_name = r.project_name
    /\ (call.op = "save_scenario" /\ ~call.trips[1].ok) => Len(call.trips) = 1

\* C6: a fetch-one or fetch-all call answered with rows but without a list of
\* column names raises an error; it returns neither a mapping nor a list.
C6_RowsWithoutColumnsRaise ==
    (/\ call.op = "execute_turso_query"
     /\ call.fetch_mode \in {"one", "all"}
     /\ call.t.kind = "json"
     /\ call.t.body.results # <<>>
     /\ call.t.body.results[1].error = <<>>
     /\ ~call.t.body.results[1].columns.present
     /\ call.t.body.results[1].rows # <<>>) =>
        call.out.kind = "raise"

====
